---- MODULE Spec2Model ----
(***************************************************************************)
(* Model of pl.py, the region-result to TikZ converter: argument           *)
(* validation, style loading, the directory filter, the conversion loop    *)
(* and generate_output_for_input_file (the per-line parser and the bounds  *)
(* accumulator).                                                           *)
(*                                                                         *)
(* Text is modelled at character level: a line is a tuple of one-character *)
(* strings, the record pattern is matched by a backtracking matcher, and   *)
(* a bound is parsed digit by digit into a reduced fraction.               *)
(***************************************************************************)
EXTENDS Integers, Sequences, FiniteSets, TLC

(***************************************************************************)
(* Bounds of the model.                                                    *)
(***************************************************************************)
\* Longest input file, in lines, handed to generate_output_for_input_file
\* under SpecCore.
MaxLines == 2

(***************************************************************************)
(* Characters and character classes of the record pattern (pl.py:244).     *)
(***************************************************************************)
Digits == {"0", "1", "2", "3", "4", "5", "6", "7", "8", "9"}

Letters ==
    {"A", "B", "C", "D", "E", "F", "G", "H", "I", "J", "K", "L", "M",
     "N", "O", "P", "Q", "R", "S", "T", "U", "V", "W", "X", "Y", "Z",
     "a", "b", "c", "d", "e", "f", "g", "h", "i", "j", "k", "l", "m",
     "n", "o", "p", "q", "r", "s", "t", "u", "v", "w", "x", "y", "z"}

\* \w of the pattern, over the ASCII characters
WordChars == Letters \cup Digits \cup {"_"}

\* [0-9/] of the pattern
BoundChars == Digits \cup {"/"}

DigitValue(c) ==
    CASE c = "0" -> 0 [] c = "1" -> 1 [] c = "2" -> 2 [] c = "3" -> 3
      [] c = "4" -> 4 [] c = "5" -> 5 [] c = "6" -> 6 [] c = "7" -> 7
      [] c = "8" -> 8 [] c = "9" -> 9

\* None of Python, for a bound accumulator (a float otherwise: a pair <<n, d>>)
None == <<>>

(***************************************************************************)
(* re.search of the record pattern of pl.py:244,                           *)
(*   <state>: <x0><=<x_axis><=<x1>,<y0><=<y_axis><=<y1>;                   *)
(* where <state> and the axis names are greedy starred \w classes and the  *)
(* four bounds are greedy starred [0-9/] classes, each a group.            *)
(* A pattern element is a literal character or a greedy starred class      *)
(* that captures a group.                                                  *)
(***************************************************************************)
Lit(c) == [kind |-> "lit", ch |-> c, cls |-> {}]

Star(s) == [kind |-> "star", ch |-> "", cls |-> s]

Pattern ==
    << Star(WordChars), Lit(":"), Lit(" "),
       Star(BoundChars), Lit("<"), Lit("="), Star(WordChars), Lit("<"), Lit("="),
       Star(BoundChars), Lit(","),
       Star(BoundChars), Lit("<"), Lit("="), Star(WordChars), Lit("<"), Lit("="),
       Star(BoundChars), Lit(";") >>

NoMatch == [ok |-> FALSE, groups |-> <<>>]

RECURSIVE RunLen(_, _, _)

\* length of the longest run of characters of cls that starts at pos
RunLen(line, pos, cls) ==
    IF pos <= Len(line) /\ line[pos] \in cls
    THEN 1 + RunLen(line, pos + 1, cls)
    ELSE 0

RECURSIVE MatchFrom(_, _, _, _)
RECURSIVE StarFrom(_, _, _, _, _)

\* the pattern from element k on, matched at position pos of the line
MatchFrom(line, pos, k, groups) ==
    IF k > Len(Pattern) THEN [ok |-> TRUE, groups |-> groups]
    ELSE IF Pattern[k].kind = "lit"
         THEN IF pos <= Len(line) /\ line[pos] = Pattern[k].ch
              THEN MatchFrom(line, pos + 1, k + 1, groups)
              ELSE NoMatch
         ELSE StarFrom(line, pos, k, groups, RunLen(line, pos, Pattern[k].cls))

\* a greedy star: the longest run first, then shorter ones (backtracking)
StarFrom(line, pos, k, groups, n) ==
    LET r == MatchFrom(line, pos + n, k + 1,
                       Append(groups, SubSeq(line, pos, pos + n - 1)))
    IN  IF r.ok THEN r
        ELSE IF n = 0 THEN NoMatch
        ELSE StarFrom(line, pos, k, groups, n - 1)

RECURSIVE SearchFrom(_, _)

\* the leftmost match that starts at position i or later
SearchFrom(line, i) ==
    IF i > Len(line) + 1 THEN NoMatch
    ELSE LET r == MatchFrom(line, i, 1, <<>>)
         IN  IF r.ok THEN r ELSE SearchFrom(line, i + 1)

search(line) == SearchFrom(line, 1)

(***************************************************************************)
(* s2f: float(Fraction(float_string)).  Fraction accepts, over the         *)
(* characters [0-9/], digits or digits/digits; it raises ValueError for    *)
(* anything else and ZeroDivisionError for a zero denominator, and it      *)
(* reduces the fraction.  The float is modelled by the reduced fraction    *)
(* <<numerator, denominator>>: float() is monotone, and one-to-one on the  *)
(* small fractions of the model.                                           *)
(***************************************************************************)
RECURSIVE Gcd(_, _)

Gcd(a, b) == IF b = 0 THEN a ELSE Gcd(b, a % b)

Abs(n) == IF n < 0 THEN -n ELSE n

\* the fraction n/d (d # 0) in lowest terms with a positive denominator
Reduce(n, d) ==
    LET g == Gcd(Abs(n), Abs(d))
        s == IF d < 0 THEN -1 ELSE 1
    IN  << (s * n) \div g, (s * d) \div g >>

RECURSIVE ToInt(_)

\* int() of a non-empty digit string
ToInt(ds) ==
    IF Len(ds) = 0 THEN 0
    ELSE 10 * ToInt(SubSeq(ds, 1, Len(ds) - 1)) + DigitValue(ds[Len(ds)])

AllDigits(s) == Len(s) > 0 /\ \A i \in 1..Len(s) : s[i] \in Digits

\* a raised exception: its class and its argument (the line index of an
\* UnexpectedFormatException, the label of an UnknownStateException)
RaiseWith(e, a) == [kind |-> "raise", exc |-> e, arg |-> a]

Raise(e) == RaiseWith(e, <<>>)

s2f(float_string) ==
    LET slashes == {i \in 1..Len(float_string) : float_string[i] = "/"}
    IN  IF slashes = {}
        THEN IF AllDigits(float_string)
             THEN [kind |-> "float", val |-> Reduce(ToInt(float_string), 1)]
             ELSE Raise("ValueError")
        ELSE LET i == CHOOSE j \in slashes : \A m \in slashes : j <= m
                 num == SubSeq(float_string, 1, i - 1)
                 den == SubSeq(float_string, i + 1, Len(float_string))
             IN  IF ~(AllDigits(num) /\ AllDigits(den)) THEN Raise("ValueError")
                 ELSE IF ToInt(den) = 0 THEN Raise("ZeroDivisionError")
                 ELSE [kind |-> "float", val |-> Reduce(ToInt(num), ToInt(den))]

\* a < b, a - b on floats
Less(a, b) == a[1] * b[2] < b[1] * a[2]

Minus(a, b) == Reduce(a[1] * b[2] - b[1] * a[2], a[2] * b[2])

(***************************************************************************)
(* Program constants: the argparse defaults of pl.py.                      *)
(***************************************************************************)
DefaultSplit == 5

DefaultRounding == 1

DefaultLineWidth == 0

DefaultLineLimit == 100000

(***************************************************************************)
(* State labels and the built-in default style set (pl.py:119-127).        *)
(***************************************************************************)
ExistsSat == <<"E", "x", "i", "s", "t", "s", "S", "a", "t">>

AllSat == <<"A", "l", "l", "S", "a", "t">>

ExistsViolated == <<"E", "x", "i", "s", "t", "s", "V", "i", "o", "l", "a", "t", "e", "d">>

AllViolated == <<"A", "l", "l", "V", "i", "o", "l", "a", "t", "e", "d">>

Unknown == <<"U", "n", "k", "n", "o", "w", "n">>

CenterSat == <<"C", "e", "n", "t", "e", "r", "S", "a", "t">>

CenterViolated == <<"C", "e", "n", "t", "e", "r", "V", "i", "o", "l", "a", "t", "e", "d">>

\* a label no style set of the model has
Foo == <<"F", "o", "o">>

DefaultStyles ==
    LET base == (ExistsSat :> "")
                @@ (AllSat :> "pattern=crosshatch dots,pattern color=green,preaction={fill,green!30},")
                @@ (ExistsViolated :> "")
                @@ (AllViolated :> "pattern=crosshatch,pattern color=red,preaction={fill,red!30},")
                @@ (Unknown :> "")
    IN  base @@ (CenterSat :> base[ExistsSat]) @@ (CenterViolated :> base[ExistsViolated])

\* graph_styles: None, or a dict from labels to style fragments
NoStyles == [none |-> TRUE, dict |-> <<>>]

Dict(d) == [none |-> FALSE, dict |-> d]

\* the content of a readable style file of the model: a user's own style set
CustomStyles == (AllSat :> "fill=green,") @@ (AllViolated :> "fill=red,")

(***************************************************************************)
(* The lines input files are made of.                                      *)
(***************************************************************************)
\* a record with integer bounds
LineAllSat ==
    <<"A", "l", "l", "S", "a", "t", ":", " ", "0", "<", "=", "p", "<", "=",
      "1", ",", "0", "<", "=", "q", "<", "=", "1", ";", "\n">>

\* a record with fraction bounds
LineUnknown ==
    <<"U", "n", "k", "n", "o", "w", "n", ":", " ", "1", "/", "2", "<", "=",
      "p", "<", "=", "2", ",", "1", "<", "=", "q", "<", "=", "3", "/", "2",
      ";", "\n">>

\* a record whose lower bounds exceed its upper bounds
LineSwapped ==
    <<"A", "l", "l", "V", "i", "o", "l", "a", "t", "e", "d", ":", " ", "2",
      "<", "=", "p", "<", "=", "1", ",", "1", "<", "=", "q", "<", "=", "0",
      ";", "\n">>

\* an empty line, as readlines() returns it
LineEmpty ==
    <<"\n">>

\* a record whose label no style set has
LineFoo ==
    <<"F", "o", "o", ":", " ", "0", "<", "=", "p", "<", "=", "1", ",", "0",
      "<", "=", "q", "<", "=", "1", ";", "\n">>

\* a line that is no record
LineGarbage ==
    <<"g", "a", "r", "b", "a", "g", "e", " ", "t", "e", "x", "t", "\n">>

\* a record with an empty bound
LineEmptyBound ==
    <<"A", "l", "l", "S", "a", "t", ":", " ", "<", "=", "p", "<", "=", "1",
      ",", "0", "<", "=", "q", "<", "=", "1", ";", "\n">>

\* a record with the bound 1/2/3
LineTwoSlashes ==
    <<"A", "l", "l", "S", "a", "t", ":", " ", "1", "/", "2", "/", "3", "<",
      "=", "p", "<", "=", "1", ",", "0", "<", "=", "q", "<", "=", "1", ";",
      "\n">>

\* a record with text around it
LineExtraText ==
    <<"x", " ", "A", "l", "l", "S", "a", "t", ":", " ", "0", "<", "=", "p",
      "<", "=", "1", ",", "0", "<", "=", "q", "<", "=", "1", ";", " ", "y",
      "\n">>

LineCatalog ==
    {LineAllSat, LineUnknown, LineSwapped, LineEmpty, LineFoo,
     LineGarbage, LineEmptyBound, LineTwoSlashes, LineExtraText}

(***************************************************************************)
(* generate_output_for_input_file (pl.py:234-283).  Its locals are the     *)
(* record "frame"; LoopBody is one iteration of the loop over the lines,   *)
(* Render is the code after the loop.                                      *)
(***************************************************************************)
\* a local that no statement has bound yet
Unbound == <<"unbound">>

\* the locals after lines 235-242
NewFrame(file_lines) ==
    [ lines |-> file_lines, line_no |-> 0,
      x_min |-> None, x_max |-> None, y_min |-> None, y_max |-> None,
      x_axis |-> Unbound, y_axis |-> Unbound,
      rectangles_output_part |-> <<>> ]

Continue == [kind |-> "none", exc |-> "", arg |-> <<>>]

\* UpdateBounds with each bound taken over both fields of its axis
UpdateBoundsOverBothFields(f, x0, x1, y0, y1) ==
    LET lo(a, b) == IF Less(b, a) THEN b ELSE a
        hi(a, b) == IF Less(a, b) THEN b ELSE a
    IN  [ f EXCEPT
            !.x_min = IF f.x_min = None THEN lo(x0, x1) ELSE lo(f.x_min, lo(x0, x1)),
            !.x_max = IF f.x_max = None THEN hi(x0, x1) ELSE hi(f.x_max, hi(x0, x1)),
            !.y_min = IF f.y_min = None THEN lo(y0, y1) ELSE lo(f.y_min, lo(y0, y1)),
            !.y_max = IF f.y_max = None THEN hi(y0, y1) ELSE hi(f.y_max, hi(y0, y1)) ]

\* lines 257-264: the running bounds
UpdateBounds(f, x0, x1, y0, y1) ==
    [ f EXCEPT
        !.x_min = IF f.x_min = None \/ Less(x0, f.x_min) THEN x0 ELSE f.x_min,
        !.x_max = IF f.x_max = None \/ Less(f.x_max, x1) THEN x1 ELSE f.x_max,
        !.y_min = IF f.y_min = None \/ Less(y0, f.y_min) THEN y0 ELSE f.y_min,
        !.y_max = IF f.y_max = None \/ Less(f.y_max, y1) THEN y1 ELSE f.y_max ]

\* lines 245-249: what a line the pattern does not match does
NoMatchOutcome(line, line_no) ==
    IF line = <<>> THEN Continue
    ELSE RaiseWith("UnexpectedFormatException", <<line_no>>)

\* lines 266-269: graph_styles[state]
StyleLookup(styles, state) ==
    IF styles.none THEN Raise("TypeError")
    ELSE IF state \notin DOMAIN styles.dict
         THEN RaiseWith("UnknownStateException", state)
         ELSE [kind |-> "style", val |-> styles.dict[state]]

\* lines 244-273: one iteration, on the line with 0-based index f.line_no
LoopBody(f, styles, line_width) ==
    LET line == f.lines[f.line_no + 1]
        next == [f EXCEPT !.line_no = f.line_no + 1]
        title_search == search(line)
    IN  IF ~title_search.ok
        THEN [f |-> next, out |-> NoMatchOutcome(line, f.line_no)]
        ELSE
        LET g == title_search.groups
            x0 == s2f(g[2])
            x1 == s2f(g[4])
            y0 == s2f(g[5])
            y1 == s2f(g[7])
        IN  IF x0.kind = "raise" THEN [f |-> next, out |-> x0]
            ELSE IF x1.kind = "raise" THEN [f |-> next, out |-> x1]
            ELSE IF y0.kind = "raise" THEN [f |-> next, out |-> y0]
            ELSE IF y1.kind = "raise" THEN [f |-> next, out |-> y1]
            ELSE
            LET bounded == [ UpdateBounds(next, x0.val, x1.val, y0.val, y1.val)
                               EXCEPT !.x_axis = g[3], !.y_axis = g[6] ]
                rectangle_style == StyleLookup(styles, g[1])
            IN  IF rectangle_style.kind = "raise"
                THEN [f |-> bounded, out |-> rectangle_style]
                ELSE [ f |-> [ bounded EXCEPT !.rectangles_output_part =
                                 Append(@, [ style |-> << rectangle_style.val,
                                                          "line width = ",
                                                          line_width, "mm" >>,
                                             x0 |-> x0.val, y0 |-> y0.val,
                                             x1 |-> x1.val, y1 |-> y1.val ]) ],
                       out |-> Continue ]

\* get_span with a span of zero for bounds that are None
get_span_of_none_is_zero(min, max) ==
    IF min = None \/ max = None THEN [kind |-> "float", val |-> <<0, 1>>]
    ELSE [kind |-> "float", val |-> Minus(max, min)]

\* get_span (pl.py:228-229); None - None raises TypeError
get_span(min, max) ==
    IF min = None \/ max = None THEN Raise("TypeError")
    ELSE [kind |-> "float", val |-> Minus(max, min)]

\* round(span / split, ndigits) of lines 278-279; the division raises for a
\* zero split.  The rounded value is kept as the term it is computed from.
TickDistance(span, split, ndigits) ==
    IF split = 0 THEN Raise("ZeroDivisionError")
    ELSE [kind |-> "float",
          val |-> [round |-> Reduce(span[1], span[2] * split), ndigits |-> ndigits]]

RECURSIVE latex_safe_text(_)

\* latex_safe_text (pl.py:231-232): every "_" becomes "\_"
latex_safe_text(text) ==
    IF text = <<>> THEN <<>>
    ELSE (IF Head(text) = "_" THEN <<"\\", "_">> ELSE <<Head(text)>>)
         \o latex_safe_text(Tail(text))

\* lines 275-283: spans, tick distances, title and the document
Render(f, a, stem) ==
    LET x_span == get_span(f.x_min, f.x_max)
        y_span == get_span(f.y_min, f.y_max)
    IN  IF x_span.kind = "raise" THEN x_span
        ELSE IF y_span.kind = "raise" THEN y_span
        ELSE
        LET x_tick_distance == TickDistance(x_span.val, a.x_split, a.x_split_rounding)
            y_tick_distance == TickDistance(y_span.val, a.y_split, a.y_split_rounding)
        IN  IF x_tick_distance.kind = "raise" THEN x_tick_distance
            ELSE IF y_tick_distance.kind = "raise" THEN y_tick_distance
            ELSE [ kind |-> "doc",
                   x_min |-> f.x_min, x_max |-> f.x_max,
                   y_min |-> f.y_min, y_max |-> f.y_max,
                   x_tick_distance |-> x_tick_distance.val,
                   y_tick_distance |-> y_tick_distance.val,
                   x_axis |-> f.x_axis, y_axis |-> f.y_axis,
                   title |-> IF a.no_title THEN <<>> ELSE latex_safe_text(stem),
                   rectangles |-> f.rectangles_output_part ]

RECURSIVE RunLoop(_, _, _)

\* the loop of lines 243-273 from frame f on: the exception it raises, or
\* the frame it ends with
RunLoop(f, styles, line_width) ==
    IF f.line_no >= Len(f.lines) THEN [f |-> f, out |-> Continue]
    ELSE LET r == LoopBody(f, styles, line_width)
         IN  IF r.out.kind = "raise" THEN r
             ELSE RunLoop(r.f, styles, line_width)

\* the whole function: the document it returns or the exception it raises
generate_output_for_input_file(file_lines, stem, a, styles) ==
    LET r == RunLoop(NewFrame(file_lines), styles, a.line_width)
    IN  IF r.out.kind = "raise" THEN r.out ELSE Render(r.f, a, stem)

(***************************************************************************)
(* The program around it: the files, the arguments and the state of the    *)
(* script.                                                                 *)
(***************************************************************************)
\* the .regionresult files the input directory may hold; --file names the
\* first.  Each has an output path of its own (get_output_file_for_input_file
\* replaces the directory prefix and the extension, or it is --output-file).
Files == {"run_1", "plot"}

SingleFile == "run_1"

\* Path(input_file_name).stem
Stem(f) ==
    IF f = "run_1" THEN <<"r", "u", "n", "_", "1">> ELSE <<"p", "l", "o", "t">>

\* the directory listings: the files in any order, or some of them
Listings ==
    {<<>>, <<"run_1">>, <<"plot">>, <<"run_1", "plot">>, <<"plot", "run_1">>}

\* split counts given on the command line or handed to the core
SplitValues == {-1, 0, 1, 2}

\* whole input files the program is run on
BatchContents ==
    { <<>>, <<LineAllSat>>, <<LineGarbage>>, <<LineAllSat, LineFoo>>,
      <<LineAllSat, LineUnknown>> }

RECURSIVE SeqsUpTo(_, _)

\* the sequences over S of length n or less
SeqsUpTo(S, n) ==
    IF n = 0 THEN {<<>>}
    ELSE LET shorter == SeqsUpTo(S, n - 1)
         IN  shorter \cup {Append(q, x) : q \in shorter, x \in S}

\* input files handed to generate_output_for_input_file alone
CoreContents == SeqsUpTo(LineCatalog, MaxLines)

\* an input file nobody has opened yet, and one whose lines are known
Unread == [known |-> FALSE, lines |-> <<>>]

Known(c) == [known |-> TRUE, lines |-> c]

\* an output path: no file, the file of an earlier run, a file opened for
\* writing whose write failed, or a written document
Absent == [kind |-> "absent"]

Old == [kind |-> "old"]

Partial == [kind |-> "partial"]

NoResult == [kind |-> "none", exc |-> "", arg |-> <<>>]

NoFrame == NewFrame(<<>>)

VARIABLES
    args,                      \* the parsed command line (pl.py:27-56)
    style_file,                \* the style file on disk: "missing", "invalid" or "custom"
    input_files,               \* the input files on disk
    output_files,              \* the output paths on disk
    initial_outputs,           \* output_files when the program started
    pc,                        \* the statement the script is at
    exit_code,                 \* the code of exit(), 0 while running
    uncaught,                  \* the exception that ended the script, or NoResult
    graph_styles,
    load_default_styles,
    output_to_std,
    spinner,                   \* whether the name spinner is bound
    scan,                      \* the listing the filter loop has still to visit
    paths_of_files_to_convert,
    skipped_too_large_file,
    task_idx,                  \* the position of the conversion loop in the task list
    frame,                     \* the locals of generate_output_for_input_file
    output,                    \* the document generate_output_for_input_file returned
    results,                   \* per file, what its conversion returned or raised
    stdout                     \* the documents printed

vars ==
    << args, style_file, input_files, output_files, initial_outputs, pc,
       exit_code, uncaught, graph_styles, load_default_styles, output_to_std,
       spinner, scan, paths_of_files_to_convert, skipped_too_large_file,
       task_idx, frame, output, results, stdout >>

envVars == << style_file, initial_outputs >>

\* the command lines of the model; --output-file only with --file
ArgSets ==
    { a \in [ file : BOOLEAN, output_file : BOOLEAN, all : BOOLEAN,
              no_overwrite : BOOLEAN, no_folder_creation : BOOLEAN,
              styles : BOOLEAN, no_title : {FALSE},
              x_split : SplitValues, y_split : {DefaultSplit},
              x_split_rounding : {DefaultRounding},
              y_split_rounding : {DefaultRounding},
              line_width : {DefaultLineWidth},
              line_limit : {1, DefaultLineLimit} ] :
        a.output_file => a.file }

Init ==
    /\ args \in ArgSets
    /\ style_file \in (IF args.styles THEN {"missing", "invalid", "custom"}
                       ELSE {"missing"})
    /\ input_files = [f \in Files |-> Unread]
    /\ output_files \in [Files -> {Absent, Old}]
    /\ initial_outputs = output_files
    /\ pc = "parse_args"
    /\ exit_code = 0
    /\ uncaught = NoResult
    /\ graph_styles = NoStyles
    /\ load_default_styles = FALSE
    /\ output_to_std = FALSE
    /\ spinner = FALSE
    /\ scan = <<>>
    /\ paths_of_files_to_convert = <<>>
    /\ skipped_too_large_file = FALSE
    /\ task_idx = 0
    /\ frame = NoFrame
    /\ output = NoResult
    /\ results = [f \in Files |-> NoResult]
    /\ stdout = <<>>

(***************************************************************************)
(* Start-up: argument validation, task setup, style loading.               *)
(***************************************************************************)
\* positive_int (pl.py:15-19)
positive_int(value) ==
    IF value <= 0 THEN Raise("ArgumentTypeError")
    ELSE [kind |-> "int", val |-> value]

\* an exception no handler catches ends the script
Crash(e) ==
    /\ pc' = "crashed"
    /\ uncaught' = e

\* parser.parse_args() (pl.py:46-56): argparse exits with code 2 when a
\* type function raises ArgumentTypeError
ParseArgs ==
    /\ pc = "parse_args"
    /\ IF \E v \in { args.x_split, args.y_split, args.x_split_rounding,
                     args.y_split_rounding, args.line_limit } :
              positive_int(v).kind = "raise"
       THEN pc' = "exit" /\ exit_code' = 2
       ELSE pc' = "setup" /\ exit_code' = exit_code
    /\ UNCHANGED << args, envVars, input_files, output_files, uncaught,
                    graph_styles, load_default_styles, output_to_std, spinner,
                    scan, paths_of_files_to_convert, skipped_too_large_file,
                    task_idx, frame, output, results, stdout >>

\* pl.py:86-99: the globals, and the task list of a single input file
Setup ==
    /\ pc = "setup"
    /\ load_default_styles' = ~args.styles
    /\ paths_of_files_to_convert' = IF args.file THEN <<SingleFile>> ELSE <<>>
    /\ output_to_std' = (args.file /\ ~args.output_file)
    /\ pc' = "styles"
    /\ UNCHANGED << args, envVars, input_files, output_files, exit_code,
                    uncaught, graph_styles, spinner, scan,
                    skipped_too_large_file, task_idx, frame, output, results,
                    stdout >>

\* pl.py:101-127: the style file, or the default style set.  A style file
\* that cannot be read leaves graph_styles None; one that is no JSON raises
\* JSONDecodeError, a ValueError no handler catches.
LoadStyles ==
    /\ pc = "styles"
    /\ spinner' = (spinner \/ (~load_default_styles /\ ~output_to_std))
    /\ IF ~load_default_styles /\ style_file = "invalid"
       THEN /\ Crash(Raise("ValueError"))
            /\ UNCHANGED graph_styles
       ELSE /\ graph_styles' =
                 IF load_default_styles THEN Dict(DefaultStyles)
                 ELSE IF style_file = "custom" THEN Dict(CustomStyles)
                 ELSE graph_styles
            /\ pc' = IF args.file THEN "checks" ELSE "scan"
            /\ UNCHANGED uncaught
    /\ UNCHANGED << args, envVars, input_files, output_files, exit_code,
                    load_default_styles, output_to_std, scan,
                    paths_of_files_to_convert, skipped_too_large_file,
                    task_idx, frame, output, results, stdout >>

(***************************************************************************)
(* The directory scan and the filter loop (pl.py:129-165).  "scan" is the  *)
(* part of the listing the loop has still to visit, and                    *)
(* paths_of_files_to_convert collects filtered_paths.                      *)
(***************************************************************************)
Scan ==
    /\ pc = "scan"
    /\ \E listing \in Listings : scan' = listing
    /\ paths_of_files_to_convert' = <<>>
    /\ pc' = "filter"
    /\ UNCHANGED << args, envVars, input_files, output_files, exit_code,
                    uncaught, graph_styles, load_default_styles,
                    output_to_std, spinner, skipped_too_large_file, task_idx,
                    frame, output, results, stdout >>

\* the lines an open file is read to have: those read before, if any
ContentsOf(f) ==
    IF input_files[f].known THEN {input_files[f].lines} ELSE BatchContents

\* lines 144-159: whether the filter keeps the file, "keep", or why not
FilterVerdict(a, output_exists, output_newer, num_lines) ==
    IF ~a.all /\ output_exists /\ a.no_overwrite THEN "output exists"
    ELSE IF ~a.all /\ output_exists /\ output_newer THEN "unchanged"
    ELSE IF num_lines > a.line_limit THEN "too large"
    ELSE "keep"

\* one iteration of the filter loop; open() of line 139 is in no try
FilterFile ==
    /\ pc = "filter"
    /\ scan # <<>>
    /\ LET f == Head(scan) IN
       \E io_ok \in BOOLEAN, c \in ContentsOf(f), output_newer \in BOOLEAN :
          IF ~io_ok
          THEN /\ Crash(Raise("OSError"))
               /\ UNCHANGED << input_files, scan, paths_of_files_to_convert,
                               skipped_too_large_file >>
          ELSE LET verdict == FilterVerdict(args, output_files[f].kind # "absent",
                                            output_newer, Len(c))
               IN  /\ input_files' = [input_files EXCEPT ![f] = Known(c)]
                   /\ scan' = Tail(scan)
                   /\ paths_of_files_to_convert' =
                        IF verdict = "keep"
                        THEN Append(paths_of_files_to_convert, f)
                        ELSE paths_of_files_to_convert
                   /\ skipped_too_large_file' =
                        (skipped_too_large_file \/ verdict = "too large")
                   /\ UNCHANGED << pc, uncaught >>
    /\ UNCHANGED << args, envVars, output_files, exit_code, graph_styles,
                    load_default_styles, output_to_std, spinner, task_idx,
                    frame, output, results, stdout >>

\* line 165
FilterDone ==
    /\ pc = "filter"
    /\ scan = <<>>
    /\ pc' = "checks"
    /\ UNCHANGED << args, envVars, input_files, output_files, exit_code,
                    uncaught, graph_styles, load_default_styles,
                    output_to_std, spinner, scan, paths_of_files_to_convert,
                    skipped_too_large_file, task_idx, frame, output, results,
                    stdout >>

\* pl.py:167-176; --output-dir keeps its default, so line 170 never exits
Checks ==
    /\ pc = "checks"
    /\ IF paths_of_files_to_convert = <<>>
       THEN pc' = "exit" /\ exit_code' = 50
       ELSE pc' = "mkdirs" /\ exit_code' = exit_code
    /\ UNCHANGED << args, envVars, input_files, output_files, uncaught,
                    graph_styles, load_default_styles, output_to_std, spinner,
                    scan, paths_of_files_to_convert, skipped_too_large_file,
                    task_idx, frame, output, results, stdout >>

\* pl.py:178-194: the output directories; either mkdir may fail
MakeDirs ==
    /\ pc = "mkdirs"
    /\ IF ~args.file /\ ~args.no_folder_creation
       THEN /\ spinner' = TRUE
            /\ \E code \in {0, 100, 101} :
                 /\ exit_code' = code
                 /\ pc' = IF code = 0 THEN "loop" ELSE "exit"
       ELSE /\ pc' = "loop"
            /\ UNCHANGED << spinner, exit_code >>
    /\ task_idx' = 1
    /\ UNCHANGED << args, envVars, input_files, output_files, uncaught,
                    graph_styles, load_default_styles, output_to_std, scan,
                    paths_of_files_to_convert, skipped_too_large_file, frame,
                    output, results, stdout >>

(***************************************************************************)
(* The conversion loop (pl.py:285-311).                                    *)
(***************************************************************************)
\* the file the loop is at
Current == paths_of_files_to_convert[task_idx]

\* the loop's only handler for what the conversion raises: except OSError
IsCaughtByLoop(e) == e.exc = "OSError"

NextTask ==
    /\ pc' = "loop"
    /\ task_idx' = task_idx + 1
    /\ UNCHANGED uncaught

\* an exception leaves the with block of line 290: line 311 reports an
\* OSError through spinner (a NameError when that name is unbound) and the
\* loop goes on; anything else ends the script
Propagate(e) ==
    IF IsCaughtByLoop(e)
    THEN IF spinner THEN NextTask
         ELSE Crash(Raise("NameError")) /\ UNCHANGED task_idx
    ELSE Crash(e) /\ UNCHANGED task_idx

\* the loop has run through the task list
LoopDone ==
    /\ pc = "loop"
    /\ task_idx > Len(paths_of_files_to_convert)
    /\ pc' = "done"
    /\ UNCHANGED << args, envVars, input_files, output_files, exit_code,
                    uncaught, graph_styles, load_default_styles,
                    output_to_std, spinner, scan, paths_of_files_to_convert,
                    skipped_too_large_file, task_idx, frame, output, results,
                    stdout >>

\* lines 286-290 and 235-242: the spinner, open() and readlines()
OpenInput ==
    /\ pc = "loop"
    /\ task_idx <= Len(paths_of_files_to_convert)
    /\ IF ~output_to_std /\ ~spinner
       THEN /\ Crash(Raise("NameError"))
            /\ UNCHANGED << input_files, task_idx, frame, results >>
       ELSE \E io_ok \in BOOLEAN, c \in ContentsOf(Current) :
              IF io_ok
              THEN /\ input_files' = [input_files EXCEPT ![Current] = Known(c)]
                   /\ frame' = NewFrame(c)
                   /\ pc' = "generate"
                   /\ UNCHANGED << uncaught, task_idx, results >>
              ELSE /\ results' = [results EXCEPT ![Current] = Raise("OSError")]
                   /\ Propagate(Raise("OSError"))
                   /\ UNCHANGED << input_files, frame >>
    /\ UNCHANGED << args, envVars, output_files, exit_code, graph_styles,
                    load_default_styles, output_to_std, spinner, scan,
                    paths_of_files_to_convert, skipped_too_large_file, output,
                    stdout >>

\* one iteration of the loop over the lines (pl.py:243-273)
ParseLine ==
    /\ pc = "generate"
    /\ frame.line_no < Len(frame.lines)
    /\ LET r == LoopBody(frame, graph_styles, args.line_width)
       IN  /\ frame' = r.f
           /\ IF r.out.kind = "raise"
              THEN /\ results' = [results EXCEPT ![Current] = r.out]
                   /\ Propagate(r.out)
              ELSE UNCHANGED << pc, uncaught, task_idx, results >>
    /\ UNCHANGED << args, envVars, input_files, output_files, exit_code,
                    graph_styles, load_default_styles, output_to_std, spinner,
                    scan, paths_of_files_to_convert, skipped_too_large_file,
                    output, stdout >>

\* the code after the loop (pl.py:275-283) and the return to line 293
RenderDocument ==
    /\ pc = "generate"
    /\ frame.line_no >= Len(frame.lines)
    /\ LET r == Render(frame, args, Stem(Current))
       IN  /\ results' = [results EXCEPT ![Current] = r]
           /\ IF r.kind = "raise"
              THEN Propagate(r) /\ UNCHANGED output
              ELSE /\ output' = r
                   /\ pc' = "emit"
                   /\ UNCHANGED << uncaught, task_idx >>
    /\ UNCHANGED << args, envVars, input_files, output_files, exit_code,
                    graph_styles, load_default_styles, output_to_std, spinner,
                    scan, paths_of_files_to_convert, skipped_too_large_file,
                    frame, stdout >>

\* lines 300-301: open(output_file_path, "w") and wf.write(output).  open
\* may raise and leave the path as it was; it truncates the file when it
\* succeeds, so a write that raises leaves no more than a part of the text.
WriteOutcomes == {"written", "open failed", "write failed"}

FileAfterWrite(before, text, outcome) ==
    IF outcome = "open failed" THEN before
    ELSE IF outcome = "write failed" THEN Partial
    ELSE text

\* lines 295-308: print the document, or write it; the OSError of a failed
\* write is caught at line 307 and the loop goes on
Emit ==
    /\ pc = "emit"
    /\ IF output_to_std
       THEN /\ stdout' = Append(stdout, output)
            /\ UNCHANGED output_files
       ELSE /\ \E outcome \in WriteOutcomes :
                 output_files' =
                   [output_files EXCEPT
                      ![Current] = FileAfterWrite(@, output, outcome)]
            /\ UNCHANGED stdout
    /\ NextTask
    /\ UNCHANGED << args, envVars, input_files, exit_code, graph_styles,
                    load_default_styles, output_to_std, spinner, scan,
                    paths_of_files_to_convert, skipped_too_large_file, frame,
                    output, results >>

Next ==
    \/ ParseArgs
    \/ Setup
    \/ LoadStyles
    \/ Scan
    \/ FilterFile
    \/ FilterDone
    \/ Checks
    \/ MakeDirs
    \/ LoopDone
    \/ OpenInput
    \/ ParseLine
    \/ RenderDocument
    \/ Emit

Spec == Init /\ [][Next]_vars

(***************************************************************************)
(* generate_output_for_input_file on its own: any input file of MaxLines   *)
(* lines or less, any style set, any split counts (the function does not   *)
(* go through positive_int), called on the single file with the document   *)
(* going to the standard output.                                           *)
(***************************************************************************)
CoreArgSets ==
  { a \in
    [ file : {TRUE}, output_file : {FALSE}, all : {FALSE},
      no_overwrite : {FALSE}, no_folder_creation : {FALSE},
      styles : BOOLEAN, no_title : BOOLEAN,
      x_split : SplitValues, y_split : SplitValues,
      x_split_rounding : {DefaultRounding},
      y_split_rounding : {DefaultRounding},
      line_width : {DefaultLineWidth},
      line_limit : {DefaultLineLimit} ] :
    \* one argument at a time leaves its default or valid value
    /\ a.x_split = 1 \/ a.y_split = 1
    /\ a.no_title => (a.x_split = 1 /\ a.y_split = 1) }

InitCore ==
    /\ args \in CoreArgSets
    /\ style_file \in (IF args.styles THEN {"missing", "custom"} ELSE {"missing"})
    /\ load_default_styles = ~args.styles
    \* what LoadStyles leaves
    /\ graph_styles = IF load_default_styles THEN Dict(DefaultStyles)
                      ELSE IF style_file = "custom" THEN Dict(CustomStyles)
                      ELSE NoStyles
    /\ \E c \in CoreContents :
         /\ input_files = [f \in Files |-> IF f = SingleFile THEN Known(c) ELSE Unread]
         /\ frame = NewFrame(c)
    /\ output_files = [f \in Files |-> Absent]
    /\ initial_outputs = output_files
    /\ pc = "generate"
    /\ exit_code = 0
    /\ uncaught = NoResult
    /\ output_to_std = TRUE
    /\ spinner = FALSE
    /\ scan = <<>>
    /\ paths_of_files_to_convert = <<SingleFile>>
    /\ skipped_too_large_file = FALSE
    /\ task_idx = 1
    /\ output = NoResult
    /\ results = [f \in Files |-> NoResult]
    /\ stdout = <<>>

NextCore ==
    \/ ParseLine
    \/ RenderDocument

SpecCore == InitCore /\ [][NextCore]_vars

(***************************************************************************)
(* Vocabulary of the properties.                                           *)
(***************************************************************************)
\* the record text the seven groups of a match spell out
RecordText(g) ==
    g[1] \o <<":", " ">> \o g[2] \o <<"<", "=">> \o g[3] \o <<"<", "=">> \o g[4]
    \o <<",">> \o g[5] \o <<"<", "=">> \o g[6] \o <<"<", "=">> \o g[7] \o <<";">>

\* a non-negative integer, or a fraction a/b of two non-negative integers
IsBound(b) ==
    \/ AllDigits(b)
    \/ \E i \in 1..Len(b) :
         /\ b[i] = "/"
         /\ AllDigits(SubSeq(b, 1, i - 1))
         /\ AllDigits(SubSeq(b, i + 1, Len(b)))

\* the line is a record and nothing else (but for its line terminator),
\* and its four bounds are bounds
WellFormedRecord(line) ==
    LET m == search(line)
    IN  /\ m.ok
        /\ line \in {RecordText(m.groups), RecordText(m.groups) \o <<"\n">>}
        /\ \A k \in {2, 4, 5, 7} : IsBound(m.groups[k])

\* a line with no content besides its line terminator
IsEmptyLine(line) == line \in {<<>>, <<"\n">>}

LabelOf(line) == search(line).groups[1]

\* the keys of the Style Map: of the loaded set, of the default set when
\* none was loaded
StyleMapKeys ==
    IF graph_styles.none THEN DOMAIN DefaultStyles ELSE DOMAIN graph_styles.dict

\* the script has stopped
Stopped == pc \in {"done", "crashed", "exit"}

\* generate_output_for_input_file was called on f and has returned or raised
Generated(f) ==
    \/ results[f].kind = "doc"
    \/ results[f].kind = "raise" /\ results[f].exc # "OSError"

\* the conversion of f (lines 286-311) has been started and is over
AttemptEnded(f) ==
    /\ results[f] # NoResult
    /\ ~(pc = "emit" /\ Current = f)

ParseFailures == {"UnexpectedFormatException", "UnknownStateException"}

(***************************************************************************)
(* The batch: C1, C5, C8.                                                  *)
(***************************************************************************)
\* C1: a parse failure (UnexpectedFormatException or UnknownStateException)
\* raised while converting one file of the task list ends the conversion of
\* that file only: once the script has stopped, every file after it in the
\* task list has been converted too.
C1_ParseFailureEndsOneFileOnly ==
    Stopped =>
      \A i \in 1..Len(paths_of_files_to_convert) :
        LET r == results[paths_of_files_to_convert[i]]
        IN  (r.kind = "raise" /\ r.exc \in ParseFailures) =>
              \A j \in (i + 1)..Len(paths_of_files_to_convert) :
                results[paths_of_files_to_convert[j]] # NoResult

\* C5: once the conversion of a file is over (a document, a parse failure,
\* a failed read or a failed write), its output path is as it was when the
\* program started or holds the whole document; never less.
C5_NoPartialOutput ==
    \A f \in Files :
      AttemptEnded(f) =>
        \/ output_files[f] = initial_outputs[f]
        \/ results[f].kind = "doc" /\ output_files[f] = results[f]

\* the documents go to files (not to the standard output)
HasOutputPath == ~(args.file /\ ~args.output_file)

\* C8: with --no-overwrite, a file whose output file existed when the
\* program started is never converted to a document and its output file is
\* never written, whatever the other flags (--all among them) and wherever
\* the input comes from (the directory scan, or --file with --output-file).
C8_NoOverwriteKeepsOutputs ==
    \A f \in Files :
      (args.no_overwrite /\ HasOutputPath /\ initial_outputs[f] = Old) =>
        /\ results[f].kind # "doc"
        /\ output_files[f] = Old

(***************************************************************************)
(* Styles: C2, C6.                                                         *)
(***************************************************************************)
\* the file has been read and holds nothing but well-formed records whose
\* labels the default style set has
DefaultLabelledRecords(f) ==
    /\ input_files[f].known
    /\ input_files[f].lines # <<>>
    /\ \A i \in 1..Len(input_files[f].lines) :
         /\ WellFormedRecord(input_files[f].lines[i])
         /\ LabelOf(input_files[f].lines[i]) \in DOMAIN DefaultStyles

\* C2: when no style file is given or the style file cannot be read, the
\* style set in use after start-up is the default set, and a file of
\* well-formed records with labels of the default set is converted to a
\* document.
C2_DefaultStylesWhenUnread ==
    ( /\ ~args.styles \/ style_file = "missing"
      /\ pc \notin {"parse_args", "setup", "styles", "exit"} ) =>
        /\ graph_styles = Dict(DefaultStyles)
        /\ \A f \in Files :
             (Generated(f) /\ DefaultLabelledRecords(f)) => results[f].kind = "doc"

\* the file has been read and is well-formed records with labels of the
\* Style Map, then a well-formed record whose label the Style Map lacks
\* (and whatever follows)
UnknownLabelAt(f, k) ==
    /\ input_files[f].known
    /\ k \in 1..Len(input_files[f].lines)
    /\ \A i \in 1..k : WellFormedRecord(input_files[f].lines[i])
    /\ \A i \in 1..(k - 1) : LabelOf(input_files[f].lines[i]) \in StyleMapKeys
    /\ LabelOf(input_files[f].lines[k]) \notin StyleMapKeys

\* C6: a record whose label is no key of the Style Map makes the conversion
\* of its file raise UnknownStateException naming that label, however many
\* valid records come before it, and the output path stays as it was.
C6_UnknownLabelRaisesUnknownState ==
    \A f \in Files : \A k \in 1..Len(input_files[f].lines) :
      (Generated(f) /\ UnknownLabelAt(f, k)) =>
        /\ results[f] = RaiseWith("UnknownStateException",
                                  LabelOf(input_files[f].lines[k]))
        /\ output_files[f] = initial_outputs[f]

\* C6 with a style set loaded: the statement of C6 fails only in states
\* where graph_styles is None
C6_HoldsWithLoadedStyles ==
    ~graph_styles.none => C6_UnknownLabelRaisesUnknownState

(***************************************************************************)
(* generate_output_for_input_file: C3, C4, C7, C9, C10.                    *)
(***************************************************************************)
\* the function has returned or raised
Returned == pc \in {"emit", "crashed"}

NotEmptyLine(line) == ~IsEmptyLine(line)

\* C3: an empty line is skipped silently: no UnexpectedFormatException is
\* raised for it, and when the input without its empty lines yields a
\* document, the input yields the same document.
C3_EmptyLinesSkipped ==
    Returned =>
      LET r == results[SingleFile]
          expected == generate_output_for_input_file(
                        SelectSeq(frame.lines, NotEmptyLine),
                        Stem(SingleFile), args, graph_styles)
      IN  /\ ~( /\ r.kind = "raise"
                /\ r.exc = "UnexpectedFormatException"
                /\ IsEmptyLine(frame.lines[r.arg[1] + 1]) )
          /\ expected.kind = "doc" => r = expected

\* the 1-based positions of the non-empty lines that are no well-formed record
Malformed(file_lines) ==
    {i \in 1..Len(file_lines) :
        ~IsEmptyLine(file_lines[i]) /\ ~WellFormedRecord(file_lines[i])}

Least(S) == CHOOSE i \in S : \A j \in S : i <= j

\* C4: when some non-empty line is not exactly a record with bounds that are
\* integers or fractions (the lines before the first such line being
\* well-formed records with styled labels), the function raises
\* UnexpectedFormatException with the 0-based index of that line, and
\* returns no document.
C4_MalformedLineRaisesFormatError ==
    ( /\ Returned
      /\ Malformed(frame.lines) # {}
      /\ ~graph_styles.none
      /\ \A i \in 1..(Least(Malformed(frame.lines)) - 1) :
            /\ WellFormedRecord(frame.lines[i])
            /\ LabelOf(frame.lines[i]) \in StyleMapKeys ) =>
        results[SingleFile] =
          RaiseWith("UnexpectedFormatException", <<Least(Malformed(frame.lines)) - 1>>)

\* C7: whenever the x or the y split count is zero or negative, the
\* function returns no document; when the lines were parsed without error,
\* what it raises is the division error.
C7_NonPositiveSplitRaises ==
    (Returned /\ (args.x_split <= 0 \/ args.y_split <= 0)) =>
      /\ results[SingleFile].kind = "raise"
      /\ ( /\ frame.x_min # None
           /\ RunLoop(NewFrame(frame.lines), graph_styles, args.line_width).out.kind
                # "raise" ) =>
           results[SingleFile].exc = "ZeroDivisionError"

\* the four bounds the loop reads from a line, in the order x0, x1, y0, y1,
\* or <<>> when the line is no record with four readable bounds
BoundsOf(line) ==
    LET m == search(line)
        b == [k \in {2, 4, 5, 7} |-> s2f(m.groups[k])]
    IN  IF m.ok /\ \A k \in {2, 4, 5, 7} : b[k].kind = "float"
        THEN << b[2].val, b[4].val, b[5].val, b[7].val >>
        ELSE <<>>

\* bound k (1: x0, 2: x1, 3: y0, 4: y1) of the records among the first n
\* lines, read being BoundsOf of every line
BoundsRead(read, k, n) == {read[i][k] : i \in {j \in 1..n : read[j] # <<>>}}

MinOf(S) == CHOOSE v \in S : \A w \in S : ~Less(w, v)

MaxOf(S) == CHOOSE v \in S : \A w \in S : ~Less(v, w)

\* C9: after each record the accumulator holds the minimum of the x0, the
\* maximum of the x1, the minimum of the y0 and the maximum of the y1 read
\* so far (None before the first record), whether or not a record has
\* x0 > x1 or y0 > y1; and the header of a document carries these values
\* over all records.
C9_BoundsAreMinLowerMaxUpper ==
    pc \in {"generate", "emit", "crashed"} =>
      LET read == [i \in 1..Len(frame.lines) |-> BoundsOf(frame.lines[i])]
          sofar(k) == BoundsRead(read, k, frame.line_no)
          all(k) == BoundsRead(read, k, Len(frame.lines))
      IN  /\ IF sofar(1) = {}
             THEN /\ frame.x_min = None /\ frame.x_max = None
                  /\ frame.y_min = None /\ frame.y_max = None
             ELSE /\ frame.x_min = MinOf(sofar(1))
                  /\ frame.x_max = MaxOf(sofar(2))
                  /\ frame.y_min = MinOf(sofar(3))
                  /\ frame.y_max = MaxOf(sofar(4))
          /\ results[SingleFile].kind = "doc" =>
               /\ results[SingleFile].x_min = MinOf(all(1))
               /\ results[SingleFile].x_max = MaxOf(all(2))
               /\ results[SingleFile].y_min = MinOf(all(3))
               /\ results[SingleFile].y_max = MaxOf(all(4))

\* a document of two or more well-formed records, one of them with x0 > x1
\* and y0 > y1, whose header has x_min different from x_max
C9_Witness ==
    /\ pc = "emit"
    /\ results[SingleFile].kind = "doc"
    /\ Len(frame.lines) >= 2
    /\ \A i \in 1..Len(frame.lines) : WellFormedRecord(frame.lines[i])
    /\ \E i \in 1..Len(frame.lines) :
         LET b == BoundsOf(frame.lines[i])
         IN  Less(b[2], b[1]) /\ Less(b[4], b[3])
    /\ results[SingleFile].x_min # results[SingleFile].x_max

\* C10: a file of zero records never yields a document: no document has
\* undefined bounds or axis labels, and for an empty file the function
\* raises an exception that is no parse failure and no OSError, the loop
\* does not catch it (it ends the script), and nothing is written or
\* printed for the file.
C10_EmptyFileRaisesUncaught ==
    \A f \in Files :
      /\ results[f].kind = "doc" =>
           /\ None \notin { results[f].x_min, results[f].x_max,
                            results[f].y_min, results[f].y_max }
           /\ Unbound \notin { results[f].x_axis, results[f].y_axis }
      /\ (Generated(f) /\ input_files[f].known /\ input_files[f].lines = <<>>) =>
           /\ results[f].kind = "raise"
           /\ results[f].exc \notin ParseFailures \cup {"OSError"}
           /\ pc = "crashed"
           /\ uncaught = results[f]
           /\ output_files[f] = initial_outputs[f]
           /\ stdout = <<>>

\* the script ended by the TypeError of an empty file, with a style set
\* loaded and the output going to a file that existed
C10_Witness ==
    \E f \in Files :
      /\ input_files[f].known /\ input_files[f].lines = <<>>
      /\ results[f] = Raise("TypeError")
      /\ pc = "crashed"
      /\ ~graph_styles.none
      /\ ~output_to_std
      /\ output_files[f] = Old

====
